---- MODULE Spec2Model ----
(***************************************************************************)
(* State machine of the ReadmeGenerator component                          *)
(* (src/src/components/ReadmeGenerator.tsx): the project-data form, the    *)
(* tech-stack / feature lists with their staging inputs, the asynchronous  *)
(* generateReadme handler with its two suspension points (fetch and        *)
(* response.json), the localStorage cell and the copy / download exports.  *)
(*                                                                         *)
(* Text that the code only stores and compares (name, apiKey, generated    *)
(* document, toast titles) is a TLA+ string.  Text that the code trims     *)
(* (the staging inputs and the list entries) is a sequence of one-letter   *)
(* strings, so that trim() is computed letter by letter.                   *)
(* An optional value (null / undefined) is a sequence of length 0 or 1.    *)
(***************************************************************************)
EXTENDS Naturals, Sequences, FiniteSets

VARIABLES
    projectData,      \* useState<ProjectData>, lines 29-41
    generatedReadme,  \* useState(""), line 43
    isGenerating,     \* useState(false), line 44
    currentTech,      \* useState(""), line 45: staging input of techStack
    currentFeature,   \* useState(""), line 46: staging input of features
    localStorage,     \* the "groq-api-key" cell: <<>> (absent) or <<value>>
    calls,            \* the generateReadme invocations under way, each at its
                      \* position: "request" (line 118), "fetch" (awaiting
                      \* fetch, line 145), "json" (awaiting json(), line 172)
    lastRequest,      \* the request handed to fetch(): <<>> or <<request>>
    toast,            \* title of the toast shown last ("" when none yet)
    clipboard,        \* navigator.clipboard: <<>> or <<text>>
    downloaded,       \* the file offered for download last: <<>> or <<file>>
    lastOp            \* history: the list handler (add / remove) that ran last,
                      \* the trimmed entry it was about, and for an add (and
                      \* the remove that follows it) the list the add found

vars == <<projectData, generatedReadme, isGenerating, currentTech, currentFeature,
          localStorage, calls, lastRequest, toast, clipboard, downloaded, lastOp>>

---------------------------------------------------------------------------
(* Bounds of the model and the input sets drawn from them.                 *)

\* most whitespace letters typed before and after a word in a staging input
MaxPad == 1
\* most choices in a response payload
MaxChoices == 2

None == <<>>
Some(x) == <<x>>

\* letters that String.prototype.trim() strips
WhiteSpace == {" ", "\t"}

\* entries a user types: two that differ only in case
Words == { <<"a">>, <<"A">> }

Pad(n, c) == [i \in 1..n |-> c]

\* what can be typed into a staging input: nothing, blanks only, or a word
\* with spaces before it and tabs after it
Inputs ==
    { Pad(n, " ") : n \in 0..MaxPad } \cup
    { Pad(l, " ") \o w \o Pad(r, "\t") : w \in Words, l \in 0..MaxPad, r \in 0..MaxPad }

Keys == {"", "k1", "k2"}
Names == {"", "Widget"}
Descriptions == {"", "A widget."}
Authors == {"", "me"}

\* the text fields the model edits, with the values typed into each
FieldInputs ==
    ({"apiKey"} \X Keys) \cup ({"name"} \X Names) \cup ({"description"} \X Descriptions)

\* HTTP statuses the endpoint answers with
Statuses == {200, 201, 401, 500}

\* contents a choice's message carries
Contents == {"", "# Widget", "# Other"}

\* a first choice: no message, a message without content, a message with
\* content
Choices ==
    { [message |-> None] }
    \cup { [message |-> Some([content |-> None])] }
    \cup { [message |-> Some([content |-> Some(c)])] : c \in Contents }

\* the choices after the first: no message, or a message with content
LaterChoices == { [message |-> None], [message |-> Some([content |-> Some("# Other")])] }

ChoiceLists ==
    { <<>> } \cup
    { <<c>> \o rest : c \in Choices,
                      rest \in UNION { [1..n -> LaterChoices] : n \in 0..(MaxChoices - 1) } }

\* a parsed response body: an object without a choices list, or with one
Payloads == { [choices |-> None] } \cup { [choices |-> Some(cs)] : cs \in ChoiceLists }

---------------------------------------------------------------------------
(* Pure helpers.                                                           *)

RECURSIVE TrimStart(_)
TrimStart(s) ==
    IF s = <<>> THEN s
    ELSE IF Head(s) \in WhiteSpace THEN TrimStart(Tail(s)) ELSE s

RECURSIVE TrimEnd(_)
TrimEnd(s) ==
    IF s = <<>> THEN s
    ELSE IF s[Len(s)] \in WhiteSpace THEN TrimEnd(SubSeq(s, 1, Len(s) - 1)) ELSE s

\* String.prototype.trim()
Trim(s) == TrimEnd(TrimStart(s))

\* Array.prototype.includes()
Includes(list, x) == \E i \in 1..Len(list) : list[i] = x

\* Array.prototype.join(", ")
RECURSIVE Join(_)
Join(list) ==
    IF list = <<>> THEN <<>>
    ELSE IF Len(list) = 1 THEN list[1]
    ELSE list[1] \o <<",", " ">> \o Join(Tail(list))

---------------------------------------------------------------------------
(* The list handlers, lines 63-95.  addTechStack / addFeature and          *)
(* removeTechStack / removeFeature are the same code on the two lists.     *)

\* lines 64 and 81 without the includes() test
CanAddNoIncludes(list, current) == Trim(current) # <<>>

\* the condition of lines 64 and 81
CanAdd(list, current) == Trim(current) # <<>> /\ ~Includes(list, Trim(current))

\* lines 67 and 84 with the new entry spread first
AddEntryFront(list, current) == <<Trim(current)>> \o list

\* the list built at lines 67 and 84
AddEntry(list, current) == Append(list, Trim(current))

\* lines 76 and 93 with the filter's test inverted
RemoveEntryInverted(list, entry) == SelectSeq(list, LAMBDA t : t = entry)

\* the list built at lines 76 and 93
RemoveEntry(list, entry) == SelectSeq(list, LAMBDA t : t # entry)

\* JavaScript runs a handler to its first await before any other handler:
\* nothing else runs while an invocation stands between lines 117 and 145
NoHandlerRunning == \A i \in 1..Len(calls) : calls[i] # "request"

\* onChange of the tech-stack staging input, line 349
SetCurrentTech(v) ==
    /\ NoHandlerRunning
    /\ currentTech' = v
    /\ UNCHANGED <<projectData, generatedReadme, isGenerating, currentFeature,
                   localStorage, calls, lastRequest, toast, clipboard, downloaded, lastOp>>

\* onChange of the feature staging input, line 374
SetCurrentFeature(v) ==
    /\ NoHandlerRunning
    /\ currentFeature' = v
    /\ UNCHANGED <<projectData, generatedReadme, isGenerating, currentTech,
                   localStorage, calls, lastRequest, toast, clipboard, downloaded, lastOp>>

addTechStack ==
    /\ NoHandlerRunning
    /\ IF CanAdd(projectData.techStack, currentTech)
         THEN /\ projectData' = [projectData EXCEPT
                                    !.techStack = AddEntry(@, currentTech)]
              /\ currentTech' = <<>>
         ELSE UNCHANGED <<projectData, currentTech>>
    /\ lastOp' = [op |-> "addTechStack", entry |-> Trim(currentTech),
                  before |-> Some(projectData.techStack)]
    /\ UNCHANGED <<generatedReadme, isGenerating, currentFeature, localStorage,
                   calls, lastRequest, toast, clipboard, downloaded>>

addFeature ==
    /\ NoHandlerRunning
    /\ IF CanAdd(projectData.features, currentFeature)
         THEN /\ projectData' = [projectData EXCEPT
                                    !.features = AddEntry(@, currentFeature)]
              /\ currentFeature' = <<>>
         ELSE UNCHANGED <<projectData, currentFeature>>
    /\ lastOp' = [op |-> "addFeature", entry |-> Trim(currentFeature),
                  before |-> Some(projectData.features)]
    /\ UNCHANGED <<generatedReadme, isGenerating, currentTech, localStorage,
                   calls, lastRequest, toast, clipboard, downloaded>>

\* the list an add handler saw, kept by the remove that undoes that add
BeforeAdd(addOp, entry) ==
    IF lastOp.op = addOp /\ lastOp.entry = entry THEN lastOp.before ELSE None

\* onClick of a tech-stack badge, line 360: tech is an entry on display
removeTechStack(tech) ==
    /\ NoHandlerRunning
    /\ Includes(projectData.techStack, tech)
    /\ projectData' = [projectData EXCEPT !.techStack = RemoveEntry(@, tech)]
    /\ lastOp' = [op |-> "removeTechStack", entry |-> tech,
                  before |-> BeforeAdd("addTechStack", tech)]
    /\ UNCHANGED <<generatedReadme, isGenerating, currentTech, currentFeature,
                   localStorage, calls, lastRequest, toast, clipboard, downloaded>>

\* onClick of a feature badge, line 385
removeFeature(feature) ==
    /\ NoHandlerRunning
    /\ Includes(projectData.features, feature)
    /\ projectData' = [projectData EXCEPT !.features = RemoveEntry(@, feature)]
    /\ lastOp' = [op |-> "removeFeature", entry |-> feature,
                  before |-> BeforeAdd("addFeature", feature)]
    /\ UNCHANGED <<generatedReadme, isGenerating, currentTech, currentFeature,
                   localStorage, calls, lastRequest, toast, clipboard, downloaded>>

\* onChange of a text field: setProjectData(prev => ({...prev, [f]: v}))
updateField(f, v) ==
    /\ NoHandlerRunning
    /\ projectData' = [projectData EXCEPT ![f] = v]
    /\ UNCHANGED <<generatedReadme, isGenerating, currentTech, currentFeature,
                   localStorage, calls, lastRequest, toast, clipboard, downloaded, lastOp>>

---------------------------------------------------------------------------
(* generateReadme, lines 97-190.                                           *)

\* lines 98-114 with the two checks in the other order
PreconditionToastNameFirst(pd) ==
    IF pd.name = "" \/ pd.description = "" THEN "Missing Information"
    ELSE IF pd.apiKey = "" THEN "API Key Required"
    ELSE ""

\* the title of the toast of the precondition that fails, lines 98-114;
\* "" when both pass
PreconditionToast(pd) ==
    IF pd.apiKey = "" THEN "API Key Required"
    ELSE IF pd.name = "" \/ pd.description = "" THEN "Missing Information"
    ELSE ""

\* line 117 storing another field of the record
StoredKeyWrongField(pd) == pd.name

\* the value of localStorage.setItem("groq-api-key", ...), line 117
StoredKey(pd) == pd.apiKey

\* the template's slots, lines 119-142
Prompt(pd) ==
    [name |-> pd.name, description |-> pd.description,
     techStack |-> Join(pd.techStack), features |-> Join(pd.features),
     installation |-> pd.installation, usage |-> pd.usage, license |-> pd.license,
     author |-> pd.author, repository |-> pd.repository, liveDemo |-> pd.liveDemo]

\* the arguments of fetch(), lines 145-166
Request(pd) ==
    [authorization |-> <<"Bearer", pd.apiKey>>, model |-> "openai/gpt-oss-120b",
     user |-> Prompt(pd)]

\* response.ok
Ok(status) == status >= 200 /\ status <= 299

\* the string of line 173 that stands in for missing content
Fallback == "Failed to generate README"

\* line 173 reading the last choice instead of the first
ExtractReadmeLastChoice(data) ==
    IF data.choices = None THEN [threw |-> TRUE, readme |-> ""]
    ELSE LET choices == data.choices[1]
             last    == IF Len(choices) = 0 THEN None ELSE Some(choices[Len(choices)])
             message == IF last = None THEN None ELSE last[1].message
             content == IF message = None THEN None ELSE message[1].content
             text    == IF content = None THEN "" ELSE content[1]
         IN  [threw |-> FALSE, readme |-> IF text = "" THEN Fallback ELSE text]

\* line 173: data.choices[0]?.message?.content || Fallback.  Indexing a
\* missing choices list raises a TypeError; ?. stops at a missing first
\* choice, message or content.
ExtractReadme(data) ==
    IF data.choices = None THEN [threw |-> TRUE, readme |-> ""]
    ELSE LET choices == data.choices[1]
             first   == IF Len(choices) = 0 THEN None ELSE Some(choices[1])
             message == IF first = None THEN None ELSE first[1].message
             content == IF message = None THEN None ELSE message[1].content
             text    == IF content = None THEN "" ELSE content[1]
         IN  [threw |-> FALSE, readme |-> IF text = "" THEN Fallback ELSE text]

\* a catch block that resets the result
CatchReadmeCleared(previous) == ""

\* what the catch block leaves in generatedReadme, lines 180-186
CatchReadme(previous) == previous

\* no finally block: the flag stays as it is
AfterFinallyMissing == isGenerating

\* the flag set by the finally block, lines 187-189
AfterFinally == FALSE

\* a Generate button without its disabled attribute
GenerateAlwaysEnabled == TRUE

\* the Generate button is enabled, line 450
GenerateEnabled == ~isGenerating

\* the calls under way without the i-th
Without(i) == SubSeq(calls, 1, i - 1) \o SubSeq(calls, i + 1, Len(calls))

\* onClick of the Generate button, lines 97-117: up to the cell's write
generateReadme ==
    /\ NoHandlerRunning
    /\ GenerateEnabled
    /\ IF PreconditionToast(projectData) # ""
         THEN /\ toast' = PreconditionToast(projectData)
              /\ UNCHANGED <<isGenerating, localStorage, calls>>
         ELSE /\ isGenerating' = TRUE
              /\ localStorage' = Some(StoredKey(projectData))
              /\ calls' = Append(calls, "request")
              /\ UNCHANGED toast
    /\ UNCHANGED <<projectData, generatedReadme, currentTech, currentFeature,
                   lastRequest, clipboard, downloaded, lastOp>>

\* lines 119-166: the prompt is built and fetch() is called
IssueFetch(i) ==
    /\ calls[i] = "request"
    /\ lastRequest' = Some(Request(projectData))
    /\ calls' = [calls EXCEPT ![i] = "fetch"]
    /\ UNCHANGED <<projectData, generatedReadme, isGenerating, currentTech,
                   currentFeature, localStorage, toast, clipboard, downloaded, lastOp>>

\* lines 180-189: the catch block, then the finally block
CatchFinally(i) ==
    /\ generatedReadme' = CatchReadme(generatedReadme)
    /\ toast' = "Generation Failed"
    /\ isGenerating' = AfterFinally
    /\ calls' = Without(i)
    /\ UNCHANGED <<projectData, currentTech, currentFeature, localStorage,
                   lastRequest, clipboard, downloaded, lastOp>>

\* fetch() rejects: a transport error
FetchRejects(i) ==
    /\ NoHandlerRunning
    /\ calls[i] = "fetch"
    /\ CatchFinally(i)

\* fetch() resolves with a response of this status, lines 168-172
FetchResolves(i, status) ==
    /\ NoHandlerRunning
    /\ calls[i] = "fetch"
    /\ IF ~Ok(status)
         THEN CatchFinally(i)
         ELSE /\ calls' = [calls EXCEPT ![i] = "json"]
              /\ UNCHANGED <<projectData, generatedReadme, isGenerating, currentTech,
                             currentFeature, localStorage, lastRequest, toast,
                             clipboard, downloaded, lastOp>>

\* response.json() rejects: the body cannot be read or parsed
JsonRejects(i) ==
    /\ NoHandlerRunning
    /\ calls[i] = "json"
    /\ CatchFinally(i)

\* response.json() resolves with the parsed body, lines 172-179 and 187-189
JsonResolves(i, data) ==
    /\ NoHandlerRunning
    /\ calls[i] = "json"
    /\ IF ExtractReadme(data).threw
         THEN CatchFinally(i)
         ELSE /\ generatedReadme' = ExtractReadme(data).readme
              /\ toast' = "README Generated!"
              /\ isGenerating' = AfterFinally
              /\ calls' = Without(i)
              /\ UNCHANGED <<projectData, currentTech, currentFeature, localStorage,
                             lastRequest, clipboard, downloaded, lastOp>>

---------------------------------------------------------------------------
(* The exports, lines 192-212, and the preview tab that shows them.        *)

\* the export buttons rendered whatever generatedReadme holds
ExportAlwaysVisible == TRUE

\* the Copy and Download buttons are rendered, line 470
ExportVisible == generatedReadme # ""

copyToClipboard ==
    /\ NoHandlerRunning
    /\ ExportVisible
    /\ clipboard' = Some(generatedReadme)
    /\ toast' = "Copied!"
    /\ UNCHANGED <<projectData, generatedReadme, isGenerating, currentTech,
                   currentFeature, localStorage, calls, lastRequest, downloaded, lastOp>>

downloadReadme ==
    /\ NoHandlerRunning
    /\ ExportVisible
    /\ downloaded' = Some([download |-> "README.md", type |-> "text/markdown",
                           text |-> generatedReadme])
    /\ toast' = "Downloaded!"
    /\ UNCHANGED <<projectData, generatedReadme, isGenerating, currentTech,
                   currentFeature, localStorage, calls, lastRequest, clipboard, lastOp>>

---------------------------------------------------------------------------
(* Specifications.                                                         *)

\* the cell as an earlier session left it
StoredKeys == {None, Some("k1")}

Init ==
    /\ localStorage \in StoredKeys
    /\ projectData =
         [name |-> "", description |-> "", techStack |-> <<>>, features |-> <<>>,
          installation |-> "", usage |-> "", license |-> "MIT", author |-> "",
          repository |-> "", liveDemo |-> "",
          apiKey |-> IF localStorage = None THEN "" ELSE localStorage[1]]
    /\ generatedReadme = ""
    /\ isGenerating = FALSE
    /\ currentTech = <<>>
    /\ currentFeature = <<>>
    /\ calls = <<>>
    /\ lastRequest = None
    /\ toast = ""
    /\ clipboard = None
    /\ downloaded = None
    /\ lastOp = [op |-> "", entry |-> <<>>, before |-> None]

\* the generation life cycle: the fields generateReadme checks, the request
\* and its outcomes, the exports
Next ==
    \/ \E fv \in FieldInputs : updateField(fv[1], fv[2])
    \/ generateReadme
    \/ \E i \in 1..Len(calls) : IssueFetch(i)
    \/ \E i \in 1..Len(calls) : FetchRejects(i)
    \/ \E i \in 1..Len(calls), status \in Statuses : FetchResolves(i, status)
    \/ \E i \in 1..Len(calls), data \in Payloads : JsonResolves(i, data)
    \/ \E i \in 1..Len(calls) : JsonRejects(i)
    \/ copyToClipboard
    \/ downloadReadme

Spec == Init /\ [][Next]_vars

\* the list editor: the staging inputs, the add and remove handlers and a
\* text field beside them
NextList ==
    \/ \E v \in Inputs : SetCurrentTech(v)
    \/ \E v \in Inputs : SetCurrentFeature(v)
    \/ addTechStack
    \/ addFeature
    \/ \E i \in 1..Len(projectData.techStack) : removeTechStack(projectData.techStack[i])
    \/ \E i \in 1..Len(projectData.features) : removeFeature(projectData.features[i])
    \/ \E v \in Authors : updateField("author", v)

\* a first session: the cell is still absent
InitList == Init /\ localStorage = None

SpecList == InitList /\ [][NextList]_vars

---------------------------------------------------------------------------
(* Properties of generateReadme, checked under Spec.                       *)

\* C1: a generateReadme whose preconditions fail shows "API Key Required"
\* when apiKey is empty (whatever name and description are) and "Missing
\* Information" when apiKey is set but name or description is empty; it
\* starts no invocation, hands nothing to fetch, leaves the cell as it was
\* and never sets isGenerating.
C1_PreconditionFailureAborts ==
    [][ (generateReadme /\ (projectData.apiKey = "" \/ projectData.name = ""
                              \/ projectData.description = ""))
          => /\ toast' = IF projectData.apiKey = "" THEN "API Key Required"
                         ELSE "Missing Information"
             /\ calls' = calls
             /\ lastRequest' = lastRequest
             /\ localStorage' = localStorage
             /\ isGenerating = FALSE /\ isGenerating' = FALSE ]_vars

\* a key was typed but the description is empty: the click was refused, the
\* key is not in the cell and nothing was ever sent
C1_Witness ==
    /\ toast = "Missing Information"
    /\ projectData.apiKey = "k2" /\ projectData.name = "Widget"
    /\ projectData.description = ""
    /\ localStorage = None /\ lastRequest = None /\ calls = <<>> /\ ~isGenerating

\* C2: when generateReadme passes its preconditions the cell holds the
\* apiKey, as typed, before fetch is called, and it still holds the key of
\* the request sent last once that request is under way, has succeeded, has
\* been answered with a non-2xx status or has raised.
C2_KeyPersistedBeforeRequest ==
    /\ \A i \in 1..Len(calls) :
         calls[i] = "request" => localStorage = Some(projectData.apiKey)
    /\ (NoHandlerRunning /\ lastRequest # None)
         => localStorage = Some(lastRequest[1].authorization[2])

\* a request sent with key k2 has failed and the cell holds k2
C2_Witness ==
    /\ toast = "Generation Failed" /\ calls = <<>>
    /\ lastRequest # None /\ lastRequest[1].authorization[2] = "k2"
    /\ localStorage = Some("k2")

\* a step in which the request of call i ends in a transport error, a
\* non-2xx response or an unreadable body
FailureStep(i) ==
    \/ FetchRejects(i)
    \/ \E status \in Statuses : ~Ok(status) /\ FetchResolves(i, status)
    \/ JsonRejects(i)

\* C3: when the request ends in a non-2xx response or a transport error the
\* "Generation Failed" toast is shown, the generating flag is cleared and
\* generatedReadme is what it was before: an earlier document stays, an
\* empty result stays empty.
C3_FailureKeepsResult ==
    [][ (\E i \in 1..Len(calls) : FailureStep(i))
          => /\ toast' = "Generation Failed"
             /\ isGenerating' = FALSE
             /\ generatedReadme' = generatedReadme ]_vars

\* a generation failed after an earlier one had produced a document
C3_Witness ==
    /\ toast = "Generation Failed" /\ calls = <<>>
    /\ generatedReadme = "# Widget"

\* the payload carries no content: no choices list, an empty one, a first
\* choice without message, a message whose content is missing or empty
NoContent(data) ==
    \/ data.choices = None
    \/ data.choices[1] = <<>>
    \/ data.choices[1][1].message = None
    \/ data.choices[1][1].message[1].content = None
    \/ data.choices[1][1].message[1].content = Some("")

\* C4: every success response whose payload carries no content sets
\* generatedReadme to the fallback string.
C4_FallbackOnMissingContent ==
    [][ \A i \in 1..Len(calls), data \in Payloads :
          (NoContent(data) /\ JsonResolves(i, data))
            => generatedReadme' = Fallback ]_vars

\* C5: a success response whose first choice has non-empty content sets
\* generatedReadme to exactly that content, whatever it held and whatever
\* the later choices carry, shows "README Generated!" and clears the flag.
C5_FirstChoiceStored ==
    [][ \A i \in 1..Len(calls), data \in Payloads :
          (~NoContent(data) /\ JsonResolves(i, data))
            => /\ generatedReadme' = data.choices[1][1].message[1].content[1]
               /\ toast' = "README Generated!"
               /\ isGenerating' = FALSE ]_vars

\* a second document replaced the first, which had been copied before
C5_Witness ==
    /\ toast = "README Generated!" /\ calls = <<>>
    /\ generatedReadme = "# Other" /\ clipboard = Some("# Widget")

C10_NoDownloadBeforeResult ==
    generatedReadme = "" => downloaded = None

\* a generation has failed, the result is still empty, nothing was downloaded
C10_Witness ==
    /\ toast = "Generation Failed" /\ calls = <<>>
    /\ generatedReadme = "" /\ downloaded = None

---------------------------------------------------------------------------
(* Properties of the list editor, checked under SpecList.                  *)

NoDuplicates(list) ==
    \A i, j \in 1..Len(list) : list[i] = list[j] => i = j

\* no entry is empty or starts or ends with a whitespace letter
EntriesTrimmed(list) ==
    \A i \in 1..Len(list) :
        /\ list[i] # <<>>
        /\ list[i][1] \notin WhiteSpace
        /\ list[i][Len(list[i])] \notin WhiteSpace

\* C7: techStack and features never hold two equal entries, an empty entry
\* or an entry with leading or trailing whitespace.
C7_ListsUniqueAndTrimmed ==
    /\ NoDuplicates(projectData.techStack) /\ EntriesTrimmed(projectData.techStack)
    /\ NoDuplicates(projectData.features) /\ EntriesTrimmed(projectData.features)

\* both spellings are on the list and a further add of one of them, typed
\* with padding, has just been refused
C7_Witness ==
    /\ Len(projectData.techStack) = 2
    /\ lastOp.op = "addTechStack" /\ lastOp.before = Some(projectData.techStack)
    /\ currentTech # Trim(currentTech)
    /\ projectData.features # <<>>

\* the effect of an add on its list and staging input, everything else kept
AddEffect(list, list2, current, current2) ==
    IF Trim(current) = <<>> \/ Includes(list, Trim(current))
    THEN list2 = list /\ current2 = current
    ELSE list2 = list \o <<Trim(current)>> /\ current2 = <<>>

\* C8: an add whose token is empty after trimming, or whose trimmed token is
\* on the list, changes nothing: the list, the other list, the other fields
\* and the staging inputs stay; only an accepted add appends the trimmed
\* token at the end and clears its staging input.
C8_RejectedAddIsNoOp ==
    [][ /\ (lastOp'.op = "addTechStack" /\ addTechStack)
          => /\ AddEffect(projectData.techStack, projectData'.techStack,
                          currentTech, currentTech')
             /\ [projectData' EXCEPT !.techStack = <<>>]
                  = [projectData EXCEPT !.techStack = <<>>]
             /\ currentFeature' = currentFeature
        /\ (lastOp'.op = "addFeature" /\ addFeature)
          => /\ AddEffect(projectData.features, projectData'.features,
                          currentFeature, currentFeature')
             /\ [projectData' EXCEPT !.features = <<>>]
                  = [projectData EXCEPT !.features = <<>>]
             /\ currentTech' = currentTech ]_vars

\* an add of an entry already on the list has just run: the list is as the
\* add found it and the staging input still holds the token
C8_Witness ==
    /\ lastOp.op = "addTechStack" /\ lastOp.before = Some(projectData.techStack)
    /\ projectData.techStack # <<>>
    /\ Trim(currentTech) # <<>>
    /\ Includes(projectData.techStack, Trim(currentTech))

\* C9 as stated: after an add of any token and the removal of that token,
\* the list is what it was before the add.
C9_AddThenRemoveRestores ==
    /\ (lastOp.op = "removeTechStack" /\ lastOp.before # None)
         => projectData.techStack = lastOp.before[1]
    /\ (lastOp.op = "removeFeature" /\ lastOp.before # None)
         => projectData.features = lastOp.before[1]

\* C9, amended: after an add of a token whose trimmed value was not on the
\* list and the removal of the entry it appended, the list is what it was
\* before the add.
C9_AddNewThenRemoveRestores ==
    /\ (lastOp.op = "removeTechStack" /\ lastOp.before # None
          /\ ~Includes(lastOp.before[1], lastOp.entry))
         => projectData.techStack = lastOp.before[1]
    /\ (lastOp.op = "removeFeature" /\ lastOp.before # None
          /\ ~Includes(lastOp.before[1], lastOp.entry))
         => projectData.features = lastOp.before[1]

\* a new entry was appended to a non-empty list and then removed
C9_Witness ==
    /\ lastOp.op = "removeTechStack" /\ lastOp.before # None
    /\ ~Includes(lastOp.before[1], lastOp.entry)
    /\ lastOp.before[1] # <<>>
    /\ projectData.techStack = lastOp.before[1]

---------------------------------------------------------------------------
(* Overlapping invocations, checked under Spec.                            *)

\* C11: the Generate button is disabled while isGenerating is true, so at
\* most one invocation of generateReadme, and so at most one request, is
\* under way in any state, and the flag is set for as long as it is; the
\* response that sets generatedReadme is therefore that of the request
\* issued last, never that of an older one.
C11_OneRequestInFlight ==
    /\ Len(calls) <= 1
    /\ calls # <<>> => (isGenerating = TRUE /\ ~GenerateEnabled)

\* a second request is awaiting its response after the first one succeeded:
\* the only invocation under way is the newer one
C11_Witness ==
    /\ calls = <<"fetch">> /\ isGenerating = TRUE
    /\ generatedReadme = "# Widget" /\ toast = "README Generated!"

====
